---- MODULE Spec2Model ----
(***************************************************************************)
(* fb2converter/processor: the conversion job of one FB2 document.         *)
(*                                                                         *)
(*   New -> Process (thirteen stages) -> Save (flush of every image)       *)
(*       -> Clean                                                          *)
(*                                                                         *)
(* Strings the code takes apart (hrefs, file names it prefixes to hrefs)   *)
(* are sequences of tokens; ids it only compares are atomic strings.       *)
(* Image bytes are sequences <<magic, pixel, width, ...>>: the magic is    *)
(* what image.Decode sniffs, pixel 0 is a corrupt stream, a trailing 8 is  *)
(* the mark of a stream written by imaging.Encode and a trailing 7 the     *)
(* JFIF APP0 segment.                                                      *)
(***************************************************************************)
EXTENDS Integers, Sequences, FiniteSets, TLC

VARIABLES
    cfg,        \* env.Cfg / env.Debug and the arguments of New: the job's configuration
    doc,        \* the FB2 document handed to New (never changes)
    pc,         \* where the job is: "New", "Process", "Save", "Clean", "Done"
    newErr,     \* what New returned: "" (a Processor), or the failure
    tmpDir,     \* the working directory: "none", "exists", "removed"
    p,          \* Processor fields the stages read and write
    book,       \* p.Book
    ran,        \* the stages Process has called so far, in call order
    procErr,    \* the stage whose error Process returned, "" when none
    procDone,   \* Process returned nil
    saveIdx,    \* images flushed so far by Save
    lastFlush,  \* the last call of binary.flush: its receiver before and after, and its outcome
    stored      \* the image files in the working directory: file name -> bytes

vars == <<cfg, doc, pc, newErr, tmpDir, p, book, ran, procErr, procDone,
          saveIdx, lastFlush, stored>>

---------------------------------------------------------------------------
(* Bounds of the checked inputs *)

MaxNoteChildren == 3
MaxBinaries == 3
MaxFlushBinaries == 1
MaxFiles == 1
MaxAnchors == 2
MaxIndexBinaries == 2

---------------------------------------------------------------------------
(* Helpers *)

SeqsUpTo(S, n) == UNION {[1..k -> S] : k \in 0..n}

MapPut(m, k, v) == [x \in DOMAIN m \cup {k} |-> IF x = k THEN v ELSE m[x]]

EmptyMap == [x \in {} |-> TRUE]

---------------------------------------------------------------------------
(* Images: bytes, decoding, encoding *)

Formats == {"epub", "mobi", "azw3"}

IsKindle(format) == format \in {"mobi", "azw3"}

NilImg == [nil |-> TRUE, pix |-> 0, w |-> 0]

\* the format image.Decode sniffs from the first bytes ("" when no decoder matches)
Sniff(data) ==
    IF Len(data) = 0 THEN ""
    ELSE CASE data[1] = 1 -> "png"
           [] data[1] = 2 -> "jpeg"
           [] data[1] = 3 -> "gif"
           [] data[1] = 4 -> "webp"
           [] OTHER -> ""

Magic(imgType) ==
    CASE imgType = "png" -> 1
      [] imgType = "jpeg" -> 2
      [] imgType = "gif" -> 3
      [] imgType = "webp" -> 4
      [] OTHER -> 0

\* image.Decode: (nil, "", ErrFormat) for unknown bytes, (nil, name, err) for a
\* stream of a known format that does not decode, (img, name, nil) otherwise
ImageDecode(data) ==
    LET name == Sniff(data) IN
    IF name = ""
    THEN [img |-> NilImg, name |-> "", err |-> TRUE]
    ELSE IF Len(data) < 3 \/ data[2] = 0
    THEN [img |-> NilImg, name |-> name, err |-> TRUE]
    ELSE [img |-> [nil |-> FALSE, pix |-> data[2], w |-> data[3]],
          name |-> name, err |-> FALSE]

\* mime.TypeByExtension("." + imgType)
TypeByExtension(imgType) ==
    IF imgType \in {"png", "jpeg", "gif", "webp"} THEN <<"image/", imgType>> ELSE <<>>

\* imaging.Encode: a fresh stream of the target format
ImagingEncode(img, imgType) == <<Magic(imgType), img.pix, img.w, 8>>

\* mobi.SetJpegDPI: adds the JFIF APP0 segment when the stream has none
SetJpegDPI(buf) ==
    IF \E i \in 1..Len(buf) : i > 3 /\ buf[i] = 7
    THEN [buf |-> buf, added |-> FALSE]
    ELSE [buf |-> Append(buf, 7), added |-> TRUE]

\* imaging.Resize(img, int(dx*scale), ...): the scale factor is in percent
ImagingResize(img, scaleFactor) == [img EXCEPT !.w = (img.w * scaleFactor) \div 100]

\* Opaque() of the decoded bitmap: pixel 6 is a translucent one
Opaque(img) == img.pix # 6

\* white canvas, then the image drawn over it
RemoveAlpha(img) == [img EXCEPT !.pix = 5]

isImageSupported(imgType) == imgType \in {"png", "jpeg", "gif"}

ToLower(tok) == IF tok = "SVG" THEN "svg" ELSE tok

\* strings.HasSuffix(strings.ToLower(ct), "svg")
HasSuffixSvg(ct) == Len(ct) > 0 /\ ToLower(ct[Len(ct)]) = "svg"

---------------------------------------------------------------------------
(* binary (imagefile.go) *)

imageKindle == "imageKindle"
imageOpaquePNG == "imageOpaquePNG"
imageScale == "imageScale"

\* fmt.Sprintf("bin%08d.%s", i, ext)
FName(i, ext) == <<"bin", i, ".", ext>>

\* what flush returns and does: the receiver afterwards, the error ("" for nil,
\* "mkdir" and "write" for a failed call of the file system, "empty" for the
\* sanity check), the file it wrote (wrote, bytes), the steps it took in order,
\* and the step of the transformation that failed
FlushOut(b, err, wrote, steps, failed) ==
    [b |-> b, err |-> err, wrote |-> wrote,
     bytes |-> IF wrote THEN b.data ELSE <<>>, steps |-> steps, failed |-> failed]

\* the Storing label: ioutil.WriteFile of b.data
Storing(b, env, steps, failed) ==
    IF env.writeOk
    THEN FlushOut(b, "", TRUE, Append(steps, "store"), failed)
    ELSE FlushOut(b, "write", FALSE, steps, failed)

\* the end of the processing block: set b.data, the sanity check, then Storing
FlushEncoded(b, buf, env, steps) ==
    LET b1 == [b EXCEPT !.data = buf] IN
    IF Len(b1.data) = 0
    THEN FlushOut(b1, "empty", FALSE, steps, "")
    ELSE Storing(b1, env, steps, "")

\* flush with the DPI segment set on PNG output as well
FlushEncodeDpiAlways(b, env, steps) ==
    LET coerce == imageKindle \in b.flags /\ b.imgType # "jpeg"
        targetType == IF coerce THEN "jpeg" ELSE b.imgType
        steps1 == IF coerce THEN Append(steps, "coerce") ELSE steps
    IN
    IF targetType = "png"
    THEN IF ~env.encodeOk
         THEN Storing(b, env, Append(steps1, "encode"), "encode")
         ELSE FlushEncoded([b EXCEPT !.imgType = "png", !.ct = <<"image/", "png">>],
                           SetJpegDPI(ImagingEncode(b.img, "png")).buf, env,
                           steps1 \o <<"encode", "dpi">>)
    ELSE IF targetType = "jpeg"
    THEN IF ~env.encodeOk
         THEN Storing(b, env, Append(steps1, "encode"), "encode")
         ELSE FlushEncoded([b EXCEPT !.imgType = "jpeg", !.ct = <<"image/", "jpeg">>],
                           SetJpegDPI(ImagingEncode(b.img, "jpeg")).buf, env,
                           steps1 \o <<"encode", "dpi">>)
    ELSE Storing(b, env, steps1, "unsupported")

\* "Serialize the results": the target type, the encoder, the DPI segment
FlushEncode(b, env, steps) ==
    LET coerce == imageKindle \in b.flags /\ b.imgType # "jpeg"
        targetType == IF coerce THEN "jpeg" ELSE b.imgType
        steps1 == IF coerce THEN Append(steps, "coerce") ELSE steps
    IN
    IF targetType = "png"
    THEN IF ~env.encodeOk
         THEN Storing(b, env, Append(steps1, "encode"), "encode")
         ELSE FlushEncoded([b EXCEPT !.imgType = "png", !.ct = <<"image/", "png">>],
                           ImagingEncode(b.img, "png"), env, Append(steps1, "encode"))
    ELSE IF targetType = "jpeg"
    THEN IF ~env.encodeOk
         THEN Storing(b, env, Append(steps1, "encode"), "encode")
         ELSE FlushEncoded([b EXCEPT !.imgType = "jpeg", !.ct = <<"image/", "jpeg">>],
                           SetJpegDPI(ImagingEncode(b.img, "jpeg")).buf, env,
                           steps1 \o <<"encode", "dpi">>)
    ELSE Storing(b, env, steps1, "unsupported")

\* "PNG transparency"
FlushAlpha(b, env, steps) ==
    IF imageOpaquePNG \in b.flags
    THEN FlushEncode(IF ~Opaque(b.img) THEN [b EXCEPT !.img = RemoveAlpha(b.img)] ELSE b,
                     env, Append(steps, "alpha"))
    ELSE FlushEncode(b, env, steps)

\* "Scaling"
FlushScale(b, env, steps) ==
    IF imageScale \in b.flags
    THEN IF env.resizeOk
         THEN FlushAlpha([b EXCEPT !.img = ImagingResize(b.img, b.scaleFactor)],
                         env, Append(steps, "rescale"))
         ELSE Storing(b, env, Append(steps, "rescale"), "rescale")
    ELSE FlushAlpha(b, env, steps)

\* "Just in case": b.img, b.imgType, err = image.Decode(b.data)
FlushDecode(b, env) ==
    IF b.img.nil /\ Len(b.data) # 0
    THEN LET d == ImageDecode(b.data)
             b1 == [b EXCEPT !.img = d.img, !.imgType = d.name]
         IN IF d.err
            THEN Storing(b1, env, <<"decode">>, "decode")
            ELSE FlushScale(b1, env, <<"decode">>)
    ELSE FlushScale(b, env, <<>>)

\* flush without the test of b.flags: every raster image is processed
flushIgnoresFlags(b, env) ==
    IF Len(b.fname) = 0 \/ (Len(b.data) = 0 /\ b.img.nil)
    THEN FlushOut(b, "", FALSE, <<>>, "")
    ELSE IF ~env.mkdirOk
    THEN FlushOut(b, "mkdir", FALSE, <<>>, "")
    ELSE IF b.imgType = "svg"
    THEN Storing(b, env, <<>>, "")
    ELSE FlushDecode(b, env)

\* func (b *binary) flush(path string) error
flush(b, env) ==
    IF Len(b.fname) = 0 \/ (Len(b.data) = 0 /\ b.img.nil)
    THEN FlushOut(b, "", FALSE, <<>>, "")
    ELSE IF ~env.mkdirOk
    THEN FlushOut(b, "mkdir", FALSE, <<>>, "")
    ELSE IF b.imgType = "svg"
    THEN Storing(b, env, <<>>, "")
    ELSE IF b.flags # {}
    THEN FlushDecode(b, env)
    ELSE IF Len(b.data) = 0
    THEN FlushOut(b, "empty", FALSE, <<>>, "")
    ELSE Storing(b, env, <<>>, "")

FlushEnvs == [mkdirOk : BOOLEAN, resizeOk : BOOLEAN, encodeOk : BOOLEAN, writeOk : BOOLEAN]

---------------------------------------------------------------------------
(* Processor (process.go) *)

\* Process with the links resolved before the bodies are processed
StageOrderLinksFirst ==
    <<"processNotes", "processBinaries", "processDescription", "processLinks",
      "processBodies", "processImages", "generateTOCPage", "generateCover",
      "generateNCX", "prepareStylesheet", "generatePagemap", "generateOPF",
      "generateMeta">>

\* the order of the calls in Process
StageOrder ==
    <<"processNotes", "processBinaries", "processDescription", "processBodies",
      "processLinks", "processImages", "generateTOCPage", "generateCover",
      "generateNCX", "prepareStylesheet", "generatePagemap", "generateOPF",
      "generateMeta">>

NextStage == IF Len(ran) < Len(StageOrder) THEN StageOrder[Len(ran) + 1] ELSE ""

\* the enum parsers: the value a recognised string names, the enum's
\* "unsupported" marker for every other string
ParseNotesString(s) ==
    IF s \in {"default", "inline", "block", "float"} THEN s ELSE "unsupported"

ParseTOCTypeString(s) ==
    IF s \in {"normal", "kindle", "flat"} THEN s ELSE "unsupported"

ParseTOCPlacementString(s) ==
    IF s \in {"none", "before", "after"} THEN s ELSE "unsupported"

ParseAPNXGenerationSring(s) ==
    IF s \in {"none", "eink", "app"} THEN s ELSE "unsupported"

\* ParseStampPlacementString
ParseStampPlacementString(s) ==
    IF s \in {"none", "middle", "top", "bottom"} THEN s ELSE "unsupported"

\* the notes mode New stores in the Processor
NewNotesMode(c) ==
    IF ParseNotesString(c.notesMode) = "unsupported" THEN "default"
    ELSE ParseNotesString(c.notesMode)

\* the TOC type New stores in the Processor
NewTOCType(c) ==
    IF ParseTOCTypeString(c.tocType) = "unsupported" THEN "normal"
    ELSE ParseTOCTypeString(c.tocType)

\* the TOC placement New stores in the Processor
NewTOCPlacement(c) ==
    IF ParseTOCPlacementString(c.tocPlacement) = "unsupported" THEN "none"
    ELSE ParseTOCPlacementString(c.tocPlacement)

\* the page-map mode New stores in the Processor: only a Kindle job reads the
\* setting, and not one that mails the book and deletes it (c.stkDelete)
NewPageMap(c) ==
    IF ~IsKindle(c.format) THEN "none"
    ELSE IF c.stkDelete /\ c.format = "mobi" THEN "none"
    ELSE IF ParseAPNXGenerationSring(c.pageMap) = "unsupported" THEN "none"
    ELSE ParseAPNXGenerationSring(c.pageMap)

\* the stamp placement New stores in the Processor
NewStampPlacement(c) ==
    IF c.coverPlacement # "" THEN ParseStampPlacementString(c.coverPlacement) ELSE "none"

\* the Processor literal of New
NewProcessor(c) ==
    [format |-> c.format, notesMode |-> NewNotesMode(c), tocType |-> NewTOCType(c),
     tocPlacement |-> NewTOCPlacement(c), kindlePageMap |-> NewPageMap(c),
     stampPlacement |-> NewStampPlacement(c)]

\* the Processor before New has built it
NoProcessor(c) ==
    [format |-> c.format, notesMode |-> "default", tocType |-> "normal",
     tocPlacement |-> "none", kindlePageMap |-> "none", stampPlacement |-> "none"]

\* New: what it returns and what it leaves of the working directory.
\* fail is the call of the environment that fails, "" when none does.
NewResult(c, d, fail) ==
    IF fail = "uuid" THEN [err |-> "uuid", tmp |-> "none"]
    ELSE IF IsKindle(c.format) /\ fail = "kindlegen" THEN [err |-> "kindlegen", tmp |-> "none"]
    ELSE IF fail = "mkdir" THEN [err |-> "mkdir", tmp |-> "none"]
    ELSE IF ~d.xmlOk THEN [err |-> "parse", tmp |-> "exists"]
    ELSE IF c.debug /\ fail = "write" THEN [err |-> "write", tmp |-> "exists"]
    ELSE [err |-> "", tmp |-> "exists"]

NewFailures == {"", "uuid", "kindlegen", "mkdir", "write"}

EmptyBook ==
    [Notes |-> EmptyMap, NotesOrder |-> <<>>, NoteBodyTitles |-> {},
     Images |-> <<>>, Cover |-> "", Files |-> <<>>, LinksLocations |-> EmptyMap,
     SeqName |-> "", SeqNum |-> [neg |-> FALSE, mag |-> <<"0">>]]

New ==
    /\ pc = "New"
    /\ \E fail \in NewFailures :
         LET r == NewResult(cfg, doc, fail) IN
         /\ newErr' = r.err
         /\ tmpDir' = r.tmp
         /\ pc' = IF r.err = "" THEN "Process" ELSE "Done"
    /\ p' = NewProcessor(cfg)
    /\ book' = EmptyBook
    /\ UNCHANGED <<cfg, doc, ran, procErr, procDone, saveIdx, lastFlush, stored>>

\* Process: "if err := stage(); err != nil { return err }", and "return nil"
\* after the last one
AfterStage(name, err) ==
    /\ ran' = Append(ran, name)
    /\ procErr' = IF err THEN name ELSE ""
    /\ procDone' = (~err /\ Len(ran) + 1 = Len(StageOrder))
    /\ pc' = IF err THEN "Clean"
             ELSE IF Len(ran) + 1 = Len(StageOrder) THEN "Save" ELSE "Process"
    /\ UNCHANGED <<cfg, doc, newErr, tmpDir, saveIdx, lastFlush, stored>>

AtStage(name) == pc = "Process" /\ NextStage = name

\* processNotes, the loops: children is every child element of the bodies that
\* carry a name, in document order, each with the name of its body
RECURSIVE NotesLoop(_, _, _, _)
NotesLoop(children, k, b, bodyNames) ==
    IF k > Len(children) THEN b
    ELSE LET el == children[k] IN
         IF el.body \notin bodyNames
         THEN NotesLoop(children, k + 1, b, bodyNames)
         ELSE IF el.tag = "title"
         THEN NotesLoop(children, k + 1,
                        IF el.text # ""
                        THEN [b EXCEPT !.NoteBodyTitles = @ \cup {el.body}]
                        ELSE b,
                        bodyNames)
         ELSE IF el.tag = "section" /\ el.id # ""
         THEN NotesLoop(children, k + 1,
                        [b EXCEPT !.NotesOrder = Append(@, [id |-> el.id, bodyName |-> el.body]),
                                  !.Notes = MapPut(@, el.id, [title |-> el.title, body |-> el.text])],
                        bodyNames)
         ELSE NotesLoop(children, k + 1, b, bodyNames)

processNotes ==
    /\ AtStage("processNotes")
    /\ book' = NotesLoop(doc.noteChildren, 1, book, cfg.bodyNames)
    /\ p' = p
    /\ AfterStage("processNotes", FALSE)

\* base64.StdEncoding.DecodeString of the element's text, spaces removed
DecodeString(text) == [err |-> ~text.valid, data |-> IF text.valid THEN text.data ELSE <<>>]

\* the flags processBinaries gives a decoded image
BinaryFlags(imgType, c) ==
    (IF ~isImageSupported(imgType) /\ IsKindle(c.format) THEN {imageKindle} ELSE {})
    \cup (IF c.removePNGTransparency /\ imgType = "png" THEN {imageOpaquePNG} ELSE {})
    \cup (IF c.scaleFactor > 0 /\ imgType \in {"png", "jpeg"} THEN {imageScale} ELSE {})

SvgBinary(el, i, data) ==
    [id |-> el.id, ct |-> <<"image/", "svg", "+xml">>, fname |-> FName(i, "svg"),
     flags |-> {}, scaleFactor |-> 0, img |-> NilImg, imgType |-> "svg", data |-> data]

\* processBinaries giving a broken image the flags of a decoded one
RasterBinaryFlagsAlways(el, i, data, d, c) ==
    LET detectedCT == IF d.err THEN el.ct ELSE TypeByExtension(d.name)
        flags == BinaryFlags(d.name, c)
    IN [id |-> el.id, ct |-> detectedCT, fname |-> FName(i, d.name),
        flags |-> flags,
        scaleFactor |-> IF imageScale \in flags THEN c.scaleFactor ELSE 0,
        img |-> d.img, imgType |-> d.name, data |-> data]

\* "fill in image info" and the flags; d is what image.Decode returned
RasterBinary(el, i, data, d, c) ==
    LET doNotTouch == d.err
        detectedCT == IF d.err THEN el.ct ELSE TypeByExtension(d.name)
        flags == IF doNotTouch THEN {} ELSE BinaryFlags(d.name, c)
    IN [id |-> el.id, ct |-> detectedCT, fname |-> FName(i, d.name),
        flags |-> flags,
        scaleFactor |-> IF imageScale \in flags THEN c.scaleFactor ELSE 0,
        img |-> d.img, imgType |-> d.name, data |-> data]

\* processBinaries, the loop over ./FictionBook/binary[@id]: element k has index k-1
RECURSIVE BinariesLoop(_, _, _, _)
BinariesLoop(els, k, images, c) ==
    IF k > Len(els) THEN [images |-> images, err |-> FALSE]
    ELSE LET el == els[k]
             dec == DecodeString(el.text)
             d == ImageDecode(dec.data)
         IN IF dec.err THEN [images |-> images, err |-> TRUE]
            ELSE IF HasSuffixSvg(el.ct)
            THEN BinariesLoop(els, k + 1, Append(images, SvgBinary(el, k - 1, dec.data)), c)
            ELSE IF d.err /\ ~c.useBroken
            THEN BinariesLoop(els, k + 1, images, c)
            ELSE BinariesLoop(els, k + 1,
                              Append(images, RasterBinary(el, k - 1, dec.data, d, c)), c)

processBinaries ==
    /\ AtStage("processBinaries")
    /\ LET r == BinariesLoop(doc.binaries, 1, book.Images, cfg) IN
         /\ book' = [book EXCEPT !.Images = r.images]
         /\ AfterStage("processBinaries", r.err)
    /\ p' = p

\* url.Parse(c): an error for a malformed escape, the fragment otherwise
UrlParse(href) ==
    LET hashes == {i \in 1..Len(href) : href[i] = "#"}
        first == CHOOSE i \in hashes : \A j \in hashes : i <= j
    IN [err |-> \E i \in 1..Len(href) : href[i] = "%",
        Fragment |-> IF hashes = {} \/ first = Len(href) THEN "" ELSE href[first + 1]]

\* processDescription: the language, the cover page, the annotation
DescriptionCover(b, d) ==
    IF Len(d.coverHref) > 0 /\ ~UrlParse(d.coverHref).err
    THEN [b EXCEPT !.Cover = UrlParse(d.coverHref).Fragment]
    ELSE b

DescriptionAnnotation(b, d, c) ==
    IF Len(d.annotation) > 0 /\ c.annotationCreate /\ d.annotation[1].transferOk
    THEN [b EXCEPT !.Files = Append(@, d.annotation[1].file)]
    ELSE b

\* a decimal digit, and its value
IsDigit(c) == c \in {"0", "1", "2", "3", "4", "5", "6", "7", "8", "9"}

DigitVal(c) ==
    CASE c = "0" -> 0 [] c = "1" -> 1 [] c = "2" -> 2 [] c = "3" -> 3 [] c = "4" -> 4
      [] c = "5" -> 5 [] c = "6" -> 6 [] c = "7" -> 7 [] c = "8" -> 8 [] c = "9" -> 9

\* govalidator.IsInt: the empty string, or ^(?:[-+]?(?:0|[1-9][0-9]*))$
IsInt(str) ==
    LET body == IF Len(str) > 0 /\ str[1] \in {"-", "+"} THEN Tail(str) ELSE str IN
    \/ Len(str) = 0
    \/ /\ Len(body) > 0
       /\ \A i \in 1..Len(body) : IsDigit(body[i])
       /\ body[1] = "0" => Len(body) = 1

\* the digits of a magnitude without its leading zeros
RECURSIVE StripZeros(_)
StripZeros(ds) ==
    IF Len(ds) > 1 /\ ds[1] = "0" THEN StripZeros(Tail(ds)) ELSE ds

\* a < b for magnitudes without leading zeros
MagLess(a, b) ==
    \/ Len(a) < Len(b)
    \/ /\ Len(a) = Len(b)
       /\ \E i \in 1..Len(a) :
             /\ DigitVal(a[i]) < DigitVal(b[i])
             /\ \A j \in 1..(i - 1) : a[j] = b[j]

\* the largest int, 1<<63 - 1, and the magnitude of the smallest, 1<<63
MaxIntMag ==
    <<"9", "2", "2", "3", "3", "7", "2", "0", "3", "6", "8", "5", "4", "7", "7", "5",
      "8", "0", "7">>

MinIntMag ==
    <<"9", "2", "2", "3", "3", "7", "2", "0", "3", "6", "8", "5", "4", "7", "7", "5",
      "8", "0", "8">>

ZeroInt == [neg |-> FALSE, mag |-> <<"0">>]

\* strconv.Atoi: (0, ErrSyntax) for a string that is no number, the nearest
\* int and ErrRange for a number outside the int range, (n, nil) otherwise
Atoi(s) ==
    LET neg == Len(s) > 0 /\ s[1] = "-"
        body == IF Len(s) > 0 /\ s[1] \in {"-", "+"} THEN Tail(s) ELSE s
        mag == StripZeros(body)
        limit == IF neg THEN MinIntMag ELSE MaxIntMag
    IN IF Len(body) = 0 \/ \E i \in 1..Len(body) : ~IsDigit(body[i])
       THEN [n |-> ZeroInt, err |-> TRUE]
       ELSE IF MagLess(limit, mag)
       THEN [n |-> [neg |-> neg, mag |-> limit], err |-> TRUE]
       ELSE [n |-> [neg |-> neg /\ mag # <<"0">>, mag |-> mag], err |-> FALSE]

\* processDescription, the sequence element: the name, then the number when it
\* is there and IsInt accepts it (p.Book.SeqNum, err = strconv.Atoi(num))
DescriptionSequence(b, d) ==
    IF Len(d.sequence) = 0 THEN b
    ELSE LET e == d.sequence[1]
             b1 == [b EXCEPT !.SeqName = e.name]
         IN IF Len(e.number) > 0 /\ IsInt(e.number)
            THEN [b1 EXCEPT !.SeqNum = Atoi(e.number).n]
            ELSE b1

processDescription ==
    /\ AtStage("processDescription")
    /\ book' = IF doc.langOk
               THEN DescriptionAnnotation(
                        DescriptionSequence(DescriptionCover(book, doc), doc), doc, cfg)
               ELSE book
    /\ p' = p
    /\ AfterStage("processDescription", ~doc.langOk)

\* processBodies: every generated document joins Files, every id it holds
\* is registered in LinksLocations under the document's file name
processBodies ==
    /\ AtStage("processBodies")
    /\ book' = IF cfg.failAt # "processBodies"
               THEN [book EXCEPT !.Files = @ \o doc.chapters,
                                 !.LinksLocations = doc.targets]
               ELSE book
    /\ AfterStage("processBodies", cfg.failAt = "processBodies")
    /\ p' = p

\* processLinks rewriting to fname + href[1:]: the "#" is lost
LinkAnchorDropsHash(a, table) ==
    IF a.hasHref /\ Len(a.href) > 0 /\ a.href[1] = "#" /\ Tail(a.href) \in DOMAIN table
    THEN [a EXCEPT !.href = table[Tail(a.href)] \o Tail(a.href)]
    ELSE a

\* processLinks, one anchor of //a[@href]: strings.HasPrefix(href, "#"), the
\* lookup of href[1:], a.CreateAttr("href", fname+href)
LinkAnchor(a, table) ==
    IF a.hasHref /\ Len(a.href) > 0 /\ a.href[1] = "#" /\ Tail(a.href) \in DOMAIN table
    THEN [a EXCEPT !.href = table[Tail(a.href)] \o a.href]
    ELSE a

\* processLinks, one file of p.Book.Files
LinkFile(f, table) ==
    IF ~f.hasDoc THEN f
    ELSE [f EXCEPT !.anchors = [i \in 1..Len(f.anchors) |-> LinkAnchor(f.anchors[i], table)]]

LinkFiles(files, table) == [i \in 1..Len(files) |-> LinkFile(files[i], table)]

processLinks ==
    /\ AtStage("processLinks")
    /\ book' = [book EXCEPT !.Files = LinkFiles(book.Files, book.LinksLocations)]
    /\ p' = p
    /\ AfterStage("processLinks", FALSE)

\* processImages, the first loop: the first image with the cover's id loses its
\* scaling, every later one has its id set to ""
MarkCovers(images, cover) ==
    LET hits == {i \in 1..Len(images) : images[i].id = cover}
        first == CHOOSE i \in hits : \A j \in hits : i <= j
    IN [i \in 1..Len(images) |->
           IF i \notin hits THEN images[i]
           ELSE IF i = first
           THEN [images[i] EXCEPT !.flags = @ \ {imageScale}, !.scaleFactor = 0]
           ELSE [images[i] EXCEPT !.id = ""]]

IdNotEmpty(b) == b.id # ""

\* processImages, the second loop: every image whose id is "" is cut out
RemoveMarked(images) == SelectSeq(images, IdNotEmpty)

\* processImages, the branch of a book that names its cover
DedupCovers(images, cover) ==
    LET haveExtraCovers == Cardinality({i \in 1..Len(images) : images[i].id = cover}) > 1
    IN IF haveExtraCovers THEN RemoveMarked(MarkCovers(images, cover))
       ELSE MarkCovers(images, cover)

\* getDefaultCover(i): the cover image the converter ships
DefaultCover(i) ==
    [id |-> "default-cover", ct |-> <<"image/", "jpeg">>, fname |-> FName(i, "jpeg"),
     flags |-> {}, scaleFactor |-> 0, img |-> [nil |-> FALSE, pix |-> 5, w |-> 4],
     imgType |-> "jpeg", data |-> <<2, 5, 4>>]

\* a default cover stamped in the middle whatever placement was configured
DefaultCoverStampAlways(placement) == "middle"

\* "default cover always stamped": StampNone becomes StampMiddle
DefaultCoverStamp(placement) == IF placement = "none" THEN "middle" ELSE placement

processImages ==
    /\ AtStage("processImages")
    /\ IF book.Cover # ""
       THEN /\ book' = [book EXCEPT !.Images = DedupCovers(book.Images, book.Cover)]
            /\ p' = p
            /\ AfterStage("processImages", FALSE)
       ELSE IF cfg.coverDefault \/ IsKindle(p.format)
       THEN IF cfg.failAt = "processImages"
            THEN /\ UNCHANGED <<book, p>>
                 /\ AfterStage("processImages", TRUE)
            ELSE /\ book' = [book EXCEPT
                               !.Cover = DefaultCover(Len(book.Images)).id,
                               !.Images = Append(@, DefaultCover(Len(book.Images)))]
                 /\ p' = [p EXCEPT !.stampPlacement = DefaultCoverStamp(@)]
                 /\ AfterStage("processImages", FALSE)
       ELSE /\ UNCHANGED <<book, p>>
            /\ AfterStage("processImages", FALSE)

\* the stages whose code is elsewhere: Process sees only whether they fail
\* (cfg.failAt names the stage that meets a failing environment, if any)
generateTOCPage ==
    /\ AtStage("generateTOCPage")
    /\ AfterStage("generateTOCPage", cfg.failAt = "generateTOCPage")
    /\ UNCHANGED <<book, p>>

generateCover ==
    /\ AtStage("generateCover")
    /\ AfterStage("generateCover", cfg.failAt = "generateCover")
    /\ UNCHANGED <<book, p>>

generateNCX ==
    /\ AtStage("generateNCX")
    /\ AfterStage("generateNCX", cfg.failAt = "generateNCX")
    /\ UNCHANGED <<book, p>>

prepareStylesheet ==
    /\ AtStage("prepareStylesheet")
    /\ AfterStage("prepareStylesheet", cfg.failAt = "prepareStylesheet")
    /\ UNCHANGED <<book, p>>

generatePagemap ==
    /\ AtStage("generatePagemap")
    /\ AfterStage("generatePagemap", cfg.failAt = "generatePagemap")
    /\ UNCHANGED <<book, p>>

generateOPF ==
    /\ AtStage("generateOPF")
    /\ AfterStage("generateOPF", cfg.failAt = "generateOPF")
    /\ UNCHANGED <<book, p>>

generateMeta ==
    /\ AtStage("generateMeta")
    /\ AfterStage("generateMeta", cfg.failAt = "generateMeta")
    /\ UNCHANGED <<book, p>>

NoFlush == [called |-> FALSE]

\* Save, p.Book.flushImages: flush of the next image; its error ends Save
FlushImage ==
    /\ pc = "Save"
    /\ saveIdx < Len(book.Images)
    /\ \E env \in FlushEnvs :
         LET pre == book.Images[saveIdx + 1]
             r == flush(pre, env)
         IN /\ lastFlush' = [called |-> TRUE, pre |-> pre, post |-> r.b, err |-> r.err,
                              wrote |-> r.wrote, bytes |-> r.bytes, steps |-> r.steps,
                              failed |-> r.failed]
            /\ book' = [book EXCEPT !.Images[saveIdx + 1] = r.b]
            /\ stored' = IF r.wrote THEN MapPut(stored, pre.fname, r.bytes) ELSE stored
            /\ saveIdx' = saveIdx + 1
            /\ pc' = IF r.err # "" THEN "Clean" ELSE "Save"
    /\ UNCHANGED <<cfg, doc, newErr, tmpDir, p, ran, procErr, procDone>>

\* Save, after the images: the rest is written and the book is packed
SaveDone ==
    /\ pc = "Save"
    /\ saveIdx = Len(book.Images)
    /\ pc' = "Clean"
    /\ UNCHANGED <<cfg, doc, newErr, tmpDir, p, book, ran, procErr, procDone,
                   saveIdx, lastFlush, stored>>

\* Clean: os.RemoveAll(p.tmpDir) unless env.Debug
CleanDir(debug, dir) == IF debug THEN dir ELSE "removed"

Clean ==
    /\ pc = "Clean"
    /\ tmpDir' = CleanDir(cfg.debug, tmpDir)
    /\ stored' = IF cfg.debug THEN stored ELSE EmptyMap
    /\ pc' = "Done"
    /\ UNCHANGED <<cfg, doc, newErr, p, book, ran, procErr, procDone, saveIdx, lastFlush>>

Next ==
    \/ New
    \/ processNotes
    \/ processBinaries
    \/ processDescription
    \/ processBodies
    \/ processLinks
    \/ processImages
    \/ generateTOCPage
    \/ generateCover
    \/ generateNCX
    \/ prepareStylesheet
    \/ generatePagemap
    \/ generateOPF
    \/ generateMeta
    \/ FlushImage
    \/ SaveDone
    \/ Clean

---------------------------------------------------------------------------
(* The checked inputs *)

GoodPng == [valid |-> TRUE, data |-> <<1, 5, 4>>]

BaseCfg ==
    [debug |-> FALSE, format |-> "epub", useBroken |-> FALSE,
     removePNGTransparency |-> FALSE, scaleFactor |-> 0, coverDefault |-> FALSE,
     coverPlacement |-> "", annotationCreate |-> TRUE, bodyNames |-> {"notes"},
     notesMode |-> "default", tocType |-> "normal", tocPlacement |-> "none",
     pageMap |-> "none", stkDelete |-> FALSE, failAt |-> ""]

BaseDoc ==
    [xmlOk |-> TRUE, noteChildren |-> <<>>,
     binaries |-> <<[id |-> "x", ct |-> <<"image/", "png">>, text |-> GoodPng]>>,
     langOk |-> TRUE, coverHref |-> <<>>, sequence |-> <<>>, annotation |-> <<>>,
     chapters |-> <<>>, targets |-> EmptyMap]

InitWith(c, d) ==
    /\ cfg = c
    /\ doc = d
    /\ pc = "New"
    /\ newErr = ""
    /\ tmpDir = "none"
    /\ p = NoProcessor(c)
    /\ book = EmptyBook
    /\ ran = <<>>
    /\ procErr = ""
    /\ procDone = FALSE
    /\ saveIdx = 0
    /\ lastFlush = NoFlush
    /\ stored = EmptyMap

\* whole jobs: every configuration of the run and every failure of a stage
JobCfgs ==
    {[BaseCfg EXCEPT !.debug = dbg, !.format = f, !.coverDefault = cd,
                     !.coverPlacement = pl, !.failAt = fa] :
        dbg \in BOOLEAN, f \in Formats, cd \in BOOLEAN, pl \in {"", "top", "bogus"},
        fa \in {""} \cup {StageOrder[i] : i \in 1..Len(StageOrder)}}

JobDocs ==
    {[BaseDoc EXCEPT !.xmlOk = x, !.langOk = l, !.binaries = b, !.coverHref = h] :
        x \in BOOLEAN, l \in BOOLEAN,
        b \in {<<>>, BaseDoc.binaries,
               <<[id |-> "x", ct |-> <<"image/", "png">>,
                  text |-> [valid |-> FALSE, data |-> <<>>]]>>},
        h \in {<<>>, <<"#", "x">>}}

Init == \E c \in JobCfgs, d \in JobDocs : InitWith(c, d)

Spec == Init /\ [][Next]_vars

\* note bodies: titles, sections with and without ids (repeated ids too),
\* other elements, and a body whose name is not a notes body
NoteChildSamples ==
    {[tag |-> "title", id |-> "", title |-> "", text |-> t, body |-> "notes"] :
        t \in {"", "T"}}
    \cup {[tag |-> "section", id |-> i, title |-> "t", text |-> t, body |-> "notes"] :
        i \in {"", "n1", "n2"}, t \in {"a", "b"}}
    \cup {[tag |-> "section", id |-> "n1", title |-> "t", text |-> "a", body |-> "main"],
          [tag |-> "p", id |-> "n1", title |-> "", text |-> "a", body |-> "notes"]}

InitNotes ==
    \E ch \in SeqsUpTo(NoteChildSamples, MaxNoteChildren) :
        InitWith(BaseCfg, [BaseDoc EXCEPT !.noteChildren = ch])

SpecNotes == InitNotes /\ [][Next]_vars

\* binaries of a book with a cover: the cover's id, another id, the empty id
SvgText == [valid |-> TRUE, data |-> <<6, 5, 4>>]

CoverBinarySamples ==
    {[id |-> i, ct |-> <<"image/", "png">>, text |-> GoodPng] : i \in {"c", "x", ""}}
    \cup {[id |-> i, ct |-> <<"image/", "svg">>, text |-> SvgText] : i \in {"c", "x", ""}}

InitCover ==
    \E bs \in SeqsUpTo(CoverBinarySamples, MaxBinaries),
       h \in {<<>>, <<"#", "c">>},
       f \in {"epub", "mobi"}, sf \in {0, 50} :
        InitWith([BaseCfg EXCEPT !.format = f, !.scaleFactor = sf],
                 [BaseDoc EXCEPT !.binaries = bs, !.coverHref = h])

SpecCover == InitCover /\ [][Next]_vars

\* binaries of every kind: SVG, rasters of each format, broken ones, empty
\* ones, one whose text is not base64
FlushBinarySamples ==
    {[id |-> "x", ct |-> c, text |-> [valid |-> TRUE, data |-> d]] :
        c \in {<<"image/", "png">>, <<"image/", "jpeg">>},
        d \in {<<>>, <<0, 5, 4>>, <<1, 0, 4>>, <<1, 5, 4>>, <<1, 6, 4>>, <<2, 5, 4>>,
               <<4, 5, 4>>}}
    \cup {[id |-> "x", ct |-> <<"image/", "SVG">>, text |-> [valid |-> TRUE, data |-> d]] :
        d \in {<<>>, <<6, 5, 4>>}}
    \cup {[id |-> "x", ct |-> <<"image/", "png">>, text |-> [valid |-> FALSE, data |-> <<>>]]}

InitImages ==
    \E bs \in SeqsUpTo(FlushBinarySamples, MaxFlushBinaries),
       f \in Formats, ub \in BOOLEAN, tr \in BOOLEAN, sf \in {0, 50} :
        InitWith([BaseCfg EXCEPT !.format = f, !.useBroken = ub,
                                 !.removePNGTransparency = tr, !.scaleFactor = sf],
                 [BaseDoc EXCEPT !.binaries = bs])

SpecImages == InitImages /\ [][Next]_vars

\* generated documents and their anchors
AnchorSamples ==
    {[hasHref |-> FALSE, href |-> <<>>, name |-> "a0"]}
    \cup {[hasHref |-> TRUE, href |-> h, name |-> "a1"] :
            h \in {<<"#", "n1">>, <<"#", "n2">>, <<"x", "#", "n1">>}}

FileSamples ==
    {[hasDoc |-> TRUE, anchors |-> as] : as \in SeqsUpTo(AnchorSamples, MaxAnchors)}
    \cup {[hasDoc |-> FALSE, anchors |-> <<>>]}

TargetSamples == {EmptyMap, [k \in {<<"n1">>} |-> <<"ch1", ".xhtml">>]}

AnnotationSamples ==
    {<<>>,
     <<[transferOk |-> TRUE,
        file |-> [hasDoc |-> TRUE,
                  anchors |-> <<[hasHref |-> TRUE, href |-> <<"#", "n1">>, name |-> "a2"]>>]]>>}

InitLinks ==
    \E fs \in SeqsUpTo(FileSamples, MaxFiles), t \in TargetSamples, an \in AnnotationSamples :
        InitWith(BaseCfg, [BaseDoc EXCEPT !.chapters = fs, !.targets = t, !.annotation = an])

SpecLinks == InitLinks /\ [][Next]_vars

\* flush alone, on every binary: img is nil or what the bytes decode to
BinarySamples ==
    {[id |-> "x", ct |-> c, fname |-> FName(0, t), flags |-> fl,
      scaleFactor |-> IF imageScale \in fl THEN 50 ELSE 0,
      img |-> IF dec THEN ImageDecode(d).img ELSE NilImg, imgType |-> t, data |-> d] :
        c \in {<<"image/", "png">>, <<"image/", "jpeg">>},
        t \in {"png", "jpeg", "gif", "svg", ""},
        fl \in SUBSET {imageKindle, imageOpaquePNG, imageScale},
        dec \in BOOLEAN,
        d \in {<<>>, <<0, 5, 4>>, <<1, 0, 4>>, <<1, 5, 4>>, <<1, 6, 4>>, <<2, 5, 4>>,
               <<3, 5, 4>>}}

InitFlush ==
    \E b \in BinarySamples :
        /\ cfg = BaseCfg
        /\ doc = BaseDoc
        /\ pc = "Save"
        /\ newErr = ""
        /\ tmpDir = "exists"
        /\ p = NewProcessor(BaseCfg)
        /\ book = [EmptyBook EXCEPT !.Images = <<b>>]
        /\ ran = StageOrder
        /\ procErr = ""
        /\ procDone = TRUE
        /\ saveIdx = 0
        /\ lastFlush = NoFlush
        /\ stored = EmptyMap

SpecFlush == InitFlush /\ [][FlushImage]_vars

\* the five enum settings: a recognised value that is not the default, and a
\* string no parser knows
InitConfig ==
    \E nm \in {"inline", "bogus"}, tt \in {"flat", "bogus"}, tp \in {"before", "bogus"},
       pm \in {"eink", "bogus"}, sp \in {"", "top", "bogus"},
       f \in Formats, sd \in BOOLEAN :
        InitWith([BaseCfg EXCEPT !.notesMode = nm, !.tocType = tt, !.tocPlacement = tp,
                                 !.pageMap = pm, !.coverPlacement = sp, !.format = f,
                                 !.stkDelete = sd],
                 BaseDoc)

SpecConfig == InitConfig /\ [][Next]_vars

\* the number attribute of a sequence element: absent, integers with and
\* without a sign, strings IsInt refuses, the largest and the smallest int, and
\* numbers one beyond them and far beyond them
NumberSamples ==
    {<<>>, <<"5">>, <<"-", "1", "2">>, <<"+", "7">>, <<"-", "0">>, <<"0", "0", "7">>,
     <<"1", "x">>, <<"-">>,
     MaxIntMag, <<"-">> \o MinIntMag,
     SubSeq(MaxIntMag, 1, 18) \o <<"8">>, <<"-">> \o SubSeq(MinIntMag, 1, 18) \o <<"9">>,
     <<"9">> \o MaxIntMag}

InitSequence ==
    \E sq \in {<<>>} \cup {<<[name |-> nm, number |-> nb]>> :
                              nm \in {"", "Saga"}, nb \in NumberSamples},
       l \in BOOLEAN :
        InitWith(BaseCfg, [BaseDoc EXCEPT !.sequence = sq, !.langOk = l])

SpecSequence == InitSequence /\ [][Next]_vars

\* books without a cover page whose binaries decode or do not
IndexBinarySamples ==
    {[id |-> "x", ct |-> <<"image/", "png">>, text |-> [valid |-> TRUE, data |-> d]] :
        d \in {<<1, 5, 4>>, <<2, 5, 4>>, <<0, 5, 4>>}}

InitIndex ==
    \E bs \in SeqsUpTo(IndexBinarySamples, MaxIndexBinaries),
       f \in {"epub", "mobi"}, ub \in BOOLEAN, cd \in BOOLEAN :
        InitWith([BaseCfg EXCEPT !.format = f, !.useBroken = ub, !.coverDefault = cd],
                 [BaseDoc EXCEPT !.binaries = bs])

SpecIndex == InitIndex /\ [][Next]_vars

---------------------------------------------------------------------------
(* Claims *)

\* whether the stage meets a failure on this input: bad base64 in a binary, a
\* language that does not parse, no default cover, or the failing environment
\* of a stage whose code is elsewhere
StageFails(name) ==
    CASE name = "processNotes" -> FALSE
      [] name = "processLinks" -> FALSE
      [] name = "processBinaries" ->
            \E k \in 1..Len(doc.binaries) : ~doc.binaries[k].text.valid
      [] name = "processDescription" -> ~doc.langOk
      [] name = "processImages" ->
            /\ cfg.failAt = name
            /\ book.Cover = ""
            /\ cfg.coverDefault \/ cfg.format \in {"mobi", "azw3"}
      [] OTHER -> cfg.failAt = name

\* C1: Process calls the stages in the order notes, binaries, description,
\* bodies, links, images, TOC page, cover, NCX, stylesheet, page map, OPF, meta;
\* when a stage fails Process returns that failure and calls no later stage;
\* Process returns nil only after all thirteen stages ran and none failed.
C1_ProcessOrder ==
    LET order == <<"processNotes", "processBinaries", "processDescription",
                   "processBodies", "processLinks", "processImages",
                   "generateTOCPage", "generateCover", "generateNCX",
                   "prepareStylesheet", "generatePagemap", "generateOPF",
                   "generateMeta">>
    IN /\ Len(ran) <= 13
       /\ \A i \in 1..Len(ran) : ran[i] = order[i]
       /\ \A i \in 1..Len(ran) :
             StageFails(ran[i]) => (i = Len(ran) /\ procErr = ran[i] /\ ~procDone)
       /\ procErr # "" => (StageFails(procErr) /\ pc \in {"Clean", "Done"})
       /\ procDone => (ran = order /\ procErr = ""
                        /\ \A i \in 1..13 : ~StageFails(order[i]))
       /\ pc \in {"Save", "Clean", "Done"} /\ newErr = "" => (procDone \/ procErr # "")

C1_Witness == procErr = "generateNCX" /\ Len(ran) = 9 /\ pc = "Done"

\* C3: with debug off, the working directory New acquired is gone at every end
\* of a job, the ends at which New returns an error included; with debug on,
\* Clean removes nothing.
C3_TmpDirReleased ==
    pc = "Done" =>
        /\ ~cfg.debug => tmpDir # "exists"
        /\ (cfg.debug /\ newErr = "") => tmpDir = "exists"

\* the image sequence processBinaries builds from the document
Ingested == BinariesLoop(doc.binaries, 1, <<>>, cfg).images

\* C4: when the book names its cover and more than one ingested image has that
\* id, then after processImages exactly one image has it, that image is the
\* first of them in ingestion order, and every image with another id (the
\* empty id too) is still there, in its original order.
C4_CoverDedup ==
    LET IsCover(b) == b.id = book.Cover
        NotCover(b) == b.id # book.Cover
        covers == SelectSeq(book.Images, IsCover)
    IN (/\ pc = "Process" /\ Len(ran) = 6
        /\ book.Cover # ""
        /\ Len(SelectSeq(Ingested, IsCover)) > 1)
       => /\ Len(covers) = 1
          /\ covers[1].fname = SelectSeq(Ingested, IsCover)[1].fname
          /\ SelectSeq(book.Images, NotCover) = SelectSeq(Ingested, NotCover)

\* C5: processLinks changes an anchor's href exactly when it starts with "#"
\* and the rest is a key of the link-target table, and then to the target's
\* file name followed by the old href; nothing else of the anchors, the files,
\* the table or the book changes, and the stage returns no error.
C5_LinkRewriteStep ==
    LET t == book.LinksLocations
        Hit(a) == /\ a.hasHref /\ Len(a.href) >= 1 /\ a.href[1] = "#"
                  /\ SubSeq(a.href, 2, Len(a.href)) \in DOMAIN t
    IN /\ Len(book'.Files) = Len(book.Files)
       /\ \A i \in 1..Len(book.Files) :
             LET f == book.Files[i]
                 g == book'.Files[i]
             IN /\ g.hasDoc = f.hasDoc
                /\ Len(g.anchors) = Len(f.anchors)
                /\ \A j \in 1..Len(f.anchors) :
                      LET a == f.anchors[j]
                          c == g.anchors[j]
                      IN /\ c.hasHref = a.hasHref
                         /\ c.name = a.name
                         /\ (c.href # a.href) <=> (f.hasDoc /\ Hit(a))
                         /\ (f.hasDoc /\ Hit(a)) =>
                               c.href = t[SubSeq(a.href, 2, Len(a.href))] \o a.href
       /\ book'.LinksLocations = book.LinksLocations
       /\ [book' EXCEPT !.Files = <<>>] = [book EXCEPT !.Files = <<>>]
       /\ procErr' = "" /\ pc' = "Process" /\ p' = p

C5_LinkRewrite ==
    [][(pc = "Process" /\ Len(ran) = 4) => C5_LinkRewriteStep]_vars

\* processLinks has run on a book in which one href was rewritten and another,
\* with no registered target, was not
C5_Witness ==
    /\ Len(ran) = 5
    /\ \E i \in 1..Len(book.Files) :
          \E j, k \in 1..Len(book.Files[i].anchors) :
             /\ book.Files[i].anchors[j].href = <<"ch1", ".xhtml", "#", "n1">>
             /\ book.Files[i].anchors[k].href = <<"#", "n2">>

OnlyStores(steps) == \A i \in 1..Len(steps) : steps[i] = "store"

\* C6: flush of an image with no processing flag and non-empty bytes decodes
\* nothing and encodes nothing: what it writes is the image's raw bytes, and the
\* image's bytes, type, content type and bitmap are the same afterwards.
C6_NoFlagsIdentity ==
    (lastFlush.called /\ lastFlush.pre.flags = {} /\ Len(lastFlush.pre.data) > 0)
    => /\ OnlyStores(lastFlush.steps)
       /\ lastFlush.failed = ""
       /\ lastFlush.post.data = lastFlush.pre.data
       /\ lastFlush.post.imgType = lastFlush.pre.imgType
       /\ lastFlush.post.ct = lastFlush.pre.ct
       /\ lastFlush.post.img = lastFlush.pre.img
       /\ lastFlush.wrote => lastFlush.bytes = lastFlush.pre.data
       /\ lastFlush.err \in {"", "mkdir", "write"}
       /\ lastFlush.err = "" => lastFlush.wrote

\* a decoded PNG that no configuration flagged was written as it came
C6_Witness ==
    /\ lastFlush.called
    /\ lastFlush.pre.flags = {}
    /\ ~lastFlush.pre.img.nil
    /\ lastFlush.pre.imgType = "png"
    /\ lastFlush.wrote
    /\ lastFlush.bytes = <<1, 5, 4>>

\* C7: when a step of the transformation fails (decode, rescale, encode,
\* unsupported target type) flush returns no error for it, writes the image's
\* original bytes, and the image's type and content type are those it had
\* before flush.
C7_FallbackKeepsOriginal ==
    (lastFlush.called /\ lastFlush.failed # "")
    => /\ lastFlush.err \in {"", "write"}
       /\ lastFlush.err = "" => (lastFlush.wrote /\ lastFlush.bytes = lastFlush.pre.data)
       /\ lastFlush.post.imgType = lastFlush.pre.imgType
       /\ lastFlush.post.ct = lastFlush.pre.ct

\* C8: flush writes no empty file: whenever the bytes to store are empty it
\* returns an error, and it never returns nil without having written the image.
C8_NoEmptyFile ==
    lastFlush.called
    => /\ lastFlush.wrote => Len(lastFlush.bytes) > 0
       /\ Len(lastFlush.post.data) = 0 => lastFlush.err # ""
       /\ lastFlush.err = "" => lastFlush.wrote

\* element k of the binaries is not SVG, its text is base64, and its bytes do
\* not decode as an image
BrokenBinary(k) ==
    LET el == doc.binaries[k] IN
    /\ el.text.valid
    /\ ~(Len(el.ct) > 0 /\ el.ct[Len(el.ct)] \in {"svg", "SVG"})
    /\ ImageDecode(el.text.data).err

NoteSections ==
    LET IsNote(el) == el.body \in cfg.bodyNames /\ el.tag = "section" /\ el.id # ""
    IN SelectSeq(doc.noteChildren, IsNote)

\* C10: after processNotes the notes order is as long as the notes mapping has
\* notes, whatever the input (sections that repeat an id included), note ids
\* are unique, and the notes order lists the notes in encounter order.
C10_NotesOrderMatchesNotes ==
    Len(ran) >= 1 =>
        /\ Len(book.NotesOrder) = Cardinality(DOMAIN book.Notes)
        /\ \A i, j \in 1..Len(book.NotesOrder) :
              book.NotesOrder[i].id = book.NotesOrder[j].id => i = j
        /\ Len(book.NotesOrder) = Len(NoteSections)
        /\ \A i \in 1..Len(book.NotesOrder) :
              /\ book.NotesOrder[i].id = NoteSections[i].id
              /\ book.NotesOrder[i].bodyName = NoteSections[i].body

\* C11: when the configured string of one of the five enums New reads (notes
\* mode, TOC type, TOC placement, page-map mode, stamp placement) is not a
\* recognised value, New returns no error for it and the Processor holds a
\* valid value of that enum, never its "unsupported" marker.
C11_EnumDefaults ==
    (pc # "New" /\ newErr = "") =>
        /\ p.notesMode \in {"default", "inline", "block", "float"}
        /\ p.tocType \in {"normal", "kindle", "flat"}
        /\ p.tocPlacement \in {"none", "before", "after"}
        /\ p.kindlePageMap \in {"none", "eink", "app"}
        /\ p.stampPlacement \in {"none", "middle", "top", "bottom"}
        /\ cfg.notesMode = "bogus" => p.notesMode = "default"
        /\ cfg.tocType = "bogus" => p.tocType = "normal"
        /\ cfg.tocPlacement = "bogus" => p.tocPlacement = "none"
        /\ cfg.pageMap = "bogus" => p.kindlePageMap = "none"

\* C12: processImages on a book with no cover id: for MOBI or AZW3, or with
\* the default-cover option, exactly one image is appended at the end of the
\* image sequence, the cover id becomes that image's id, and the stamp
\* placement becomes "middle" if it was "none" and is kept otherwise; if the
\* default cover cannot be obtained the stage fails and the images, the cover
\* id and the stamp placement stay as they were; for EPUB without the option
\* none of the three changes and the stage succeeds.
C12_DefaultCoverStep ==
    LET n == Len(book.Images)
        wanted == cfg.format \in {"mobi", "azw3"} \/ cfg.coverDefault
    IN book.Cover = "" =>
          IF ~wanted
          THEN /\ book'.Images = book.Images /\ book'.Cover = "" /\ p' = p
               /\ procErr' = ""
          ELSE \/ /\ procErr' = ""
                  /\ Len(book'.Images) = n + 1
                  /\ SubSeq(book'.Images, 1, n) = book.Images
                  /\ book'.Cover = book'.Images[n + 1].id
                  /\ p'.stampPlacement =
                        IF p.stampPlacement = "none" THEN "middle" ELSE p.stampPlacement
                  /\ [p' EXCEPT !.stampPlacement = "none"] = [p EXCEPT !.stampPlacement = "none"]
               \/ /\ procErr' = "processImages"
                  /\ book'.Images = book.Images /\ book'.Cover = "" /\ p' = p

C12_DefaultCover ==
    [][(pc = "Process" /\ Len(ran) = 5) => C12_DefaultCoverStep]_vars

\* an EPUB job with the default-cover option and a configured "top" placement
\* got its default cover after the book's own image, and kept "top"
C12_Witness ==
    /\ Len(ran) >= 6 /\ procErr = ""
    /\ cfg.format = "epub" /\ cfg.coverDefault /\ cfg.coverPlacement = "top"
    /\ Len(book.Images) = 2
    /\ book.Cover = book.Images[2].id
    /\ p.stampPlacement = "top"

\* C13: when the number attribute of the sequence element is not an integer
\* (not integer-shaped, or outside the range of int), processDescription does
\* not fail, the book's sequence number is left as it was before the stage
\* (unset), and the sequence name is recorded.
C13_SequenceNumber ==
    LET e == doc.sequence[1]
        shaped == Len(e.number) > 0 /\ IsInt(e.number)
        unparsable == Len(e.number) > 0 /\ (~shaped \/ Atoi(e.number).err)
    IN (Len(ran) >= 3 /\ doc.langOk /\ Len(doc.sequence) > 0 /\ unparsable)
       => /\ procErr # "processDescription"
          /\ book.SeqNum = [neg |-> FALSE, mag |-> <<"0">>]
          /\ book.SeqName = e.name

\* the place of a step in the pipeline of flush
StepRank(step) ==
    CASE step = "decode" -> 1 [] step = "rescale" -> 2 [] step = "alpha" -> 3
      [] step = "coerce" -> 4 [] step = "encode" -> 5 [] step = "dpi" -> 6
      [] step = "store" -> 7

\* C14: flush sets the JPEG DPI exactly when the image has a flag and was
\* encoded as JPEG without a failure, right after the encoding and before the
\* bytes are stored; never for PNG output, SVG, an image without flags or a
\* fall-back to the original bytes. The steps that run do so in the order
\* decode, rescale, alpha removal, target coercion, encode, DPI, store.
C14_DpiPostPass ==
    lastFlush.called =>
        LET st == lastFlush.steps
            Has(step) == \E i \in 1..Len(st) : st[i] = step
            encodedJpeg == /\ lastFlush.pre.flags # {}
                           /\ Has("encode") /\ lastFlush.failed = ""
                           /\ lastFlush.post.imgType = "jpeg"
        IN /\ \A i, j \in 1..Len(st) : i < j => StepRank(st[i]) < StepRank(st[j])
           /\ Has("dpi") <=> encodedJpeg
           /\ Has("dpi") =>
                 /\ \E i \in 1..(Len(st) - 1) : st[i] = "encode" /\ st[i + 1] = "dpi"
                 /\ lastFlush.pre.imgType # "svg"
                 /\ lastFlush.post.data # lastFlush.pre.data
           /\ lastFlush.wrote =>
                 (Has("dpi") <=> \E i \in 1..Len(lastFlush.bytes) : lastFlush.bytes[i] = 7)
           /\ (lastFlush.post.imgType = "png" \/ lastFlush.failed # ""
                 \/ lastFlush.pre.flags = {}) => ~Has("dpi")

\* every step of the pipeline ran, in order
C14_Witness ==
    /\ lastFlush.called
    /\ lastFlush.steps = <<"decode", "rescale", "alpha", "coerce", "encode", "dpi", "store">>
    /\ lastFlush.bytes = <<2, 5, 2, 8, 7>>

\* C15: no two images of the book's image sequence have the same number in
\* their binNNNNNNNN file name, whichever binaries were dropped and kept, the
\* default cover included.
C15_UniqueBinIndex ==
    \A i, j \in 1..Len(book.Images) :
        book.Images[i].fname[2] = book.Images[j].fname[2] => i = j

\* C16: the file an image is written to has the extension of the image's type
\* at the time its bytes are written, also when flush has turned an image
\* flagged for the device into JPEG.
C16_ExtensionMatchesType ==
    (lastFlush.called /\ lastFlush.wrote) =>
        lastFlush.pre.fname[Len(lastFlush.pre.fname)] = lastFlush.post.imgType

====
